---------------------------- MODULE Spec2Model ----------------------------
(***************************************************************************)
(* A model of the two instrumentation modules of the repository:           *)
(*   packages/integrations/src/httpclient.ts  (class HttpClient)           *)
(*   src/coreHandlers/handleDom.ts            (function handleDom)         *)
(*                                                                         *)
(* JavaScript strings are modelled as sequences of characters, so that     *)
(* String.prototype.includes and RegExp.prototype.test are computed and    *)
(* not assumed.  A value that may be undefined carries a flag.             *)
(***************************************************************************)
EXTENDS Integers, Sequences, FiniteSets, TLC

VARIABLES
    given,          \* the argument the constructor was called with
    options,        \* this._options
    lastIndex,      \* lastIndex of each RegExp object of failedRequestTargets
    hub,            \* what getCurrentHub() answers: client, dsn, sendDefaultPii
    env,            \* the globals: native fetch, XMLHttpRequest
    getCurrentHub,  \* this._getCurrentHub is set
    wrapped,        \* which globals setupOnce has wrapped
    lastCheck,      \* the latest call of a matching function and its result
    fetchCall,      \* the fetch call in flight
    xhr,            \* the XMLHttpRequest object of the page
    done,           \* what the latest completion (fetch or loadend) did
    requests,       \* completions so far
    dom             \* the latest call of handleDom and its outcome

vars == <<given, options, lastIndex, hub, env, getCurrentHub, wrapped,
          lastCheck, fetchCall, xhr, done, requests, dom>>

\* A JavaScript value that may be undefined: undefined, or the value given.
Undefined == [defined |-> FALSE, value |-> <<>>]
Value(v) == [defined |-> TRUE, value |-> v]

-----------------------------------------------------------------------------
(* Bounds of the model *)

MaxUrlLen == 2
MaxEntries == 2
MaxRequests == 2
MaxOpens == 2

-----------------------------------------------------------------------------
(* Strings *)

Chars == {"a", "b"}

StringsUpTo(n) == UNION {[1..k -> Chars] : k \in 0..n}

Urls == StringsUpTo(MaxUrlLen)

\* String.prototype.includes: `part` occurs in `str` at some position.
Includes(str, part) ==
    \E p \in 0..(Len(str) - Len(part)) : SubSeq(str, p + 1, p + Len(part)) = part

-----------------------------------------------------------------------------
(* Regular expressions: /.*/ and literal patterns, each with or without the
   g flag.  test() of a regular expression with the g flag starts at the
   object's lastIndex and moves it. *)

AnyRegExp(g) == [kind |-> "regexp", any |-> TRUE, src |-> <<>>, global |-> g]
LitRegExp(s, g) == [kind |-> "regexp", any |-> FALSE, src |-> s, global |-> g]
StringTarget(s) == [kind |-> "string", str |-> s]

\* The positions >= from at which `re` matches in `str`, and the match's end.
MatchesAt(re, str, p) ==
    IF re.any THEN p <= Len(str)
    ELSE p + Len(re.src) <= Len(str) /\ SubSeq(str, p + 1, p + Len(re.src)) = re.src

MatchEnd(re, str, p) == IF re.any THEN Len(str) ELSE p + Len(re.src)

FirstMatch(re, str, from) ==
    LET ps == {p \in from..Len(str) : MatchesAt(re, str, p)}
    IN  IF ps = {} THEN -1 ELSE CHOOSE p \in ps : \A q \in ps : p <= q

\* RegExp.prototype.test: the result and the object's lastIndex afterwards.
RegExpTest(re, li, str) ==
    LET from == IF re.global THEN li ELSE 0
        p == IF from > Len(str) THEN -1 ELSE FirstMatch(re, str, from)
    IN  IF p = -1
        THEN [res |-> FALSE, lastIndex |-> IF re.global THEN 0 ELSE li]
        ELSE [res |-> TRUE,
              lastIndex |-> IF re.global THEN MatchEnd(re, str, p) ELSE li]

-----------------------------------------------------------------------------
(* Options and the constructor *)

StatusCode(n) == [kind |-> "code", v |-> n]
StatusRange(b, e) == [kind |-> "range", begin |-> b, end |-> e]

DefaultStatusCodes == Value(<<StatusRange(500, 599)>>)
DefaultTargets == Value(<<AnyRegExp(FALSE)>>)

DefaultOptions ==
    [failedRequestStatusCodes |-> DefaultStatusCodes,
     failedRequestTargets |-> DefaultTargets]

OptionKeys == {"failedRequestStatusCodes", "failedRequestTargets"}

\* { failedRequestStatusCodes: [[500, 599]], failedRequestTargets: [/.*/],
\*   ...options }: every own key of the argument overwrites the default, a key
\* whose value is undefined included.
Constructor(arg) ==
    [k \in OptionKeys |-> IF k \in DOMAIN arg THEN arg[k] ELSE DefaultOptions[k]]

\* A RegExp object starts with lastIndex 0.
FreshLastIndex(opts) ==
    IF ~opts.failedRequestTargets.defined THEN <<>>
    ELSE [i \in 1..Len(opts.failedRequestTargets.value) |-> 0]


-----------------------------------------------------------------------------
(* The matching functions *)

\* A tuple that leaves its end out.
StatusEntryMatchesExclusive(range, status) ==
    IF range.kind = "code"
    THEN range.v = status
    ELSE status >= range.begin /\ status < range.end

\* One entry of failedRequestStatusCodes against a status: a number matches
\* that status, a tuple every status from range[0] to range[1].
StatusEntryMatches(range, status) ==
    IF range.kind = "code"
    THEN range.v = status
    ELSE status >= range.begin /\ status <= range.end

\* _isInGivenStatusRanges
IsInGivenStatusRanges(opts, status) ==
    IF ~opts.failedRequestStatusCodes.defined
    THEN FALSE
    ELSE \E i \in DOMAIN opts.failedRequestStatusCodes.value :
            StatusEntryMatches(opts.failedRequestStatusCodes.value[i], status)

\* Array.prototype.some over failedRequestTargets from entry i on: it stops at
\* the first entry that matches, so the entries after it are not tested and
\* their lastIndex stays.
RECURSIVE SomeTarget(_, _, _, _)
SomeTarget(targets, li, target, i) ==
    IF i > Len(targets)
    THEN [res |-> FALSE, lastIndex |-> li]
    ELSE IF targets[i].kind = "string"
    THEN IF Includes(target, targets[i].str)
         THEN [res |-> TRUE, lastIndex |-> li]
         ELSE SomeTarget(targets, li, target, i + 1)
    ELSE LET t == RegExpTest(targets[i], li[i], target)
             li2 == [li EXCEPT ![i] = t.lastIndex]
         IN  IF t.res
             THEN [res |-> TRUE, lastIndex |-> li2]
             ELSE SomeTarget(targets, li2, target, i + 1)

\* _isInGivenRequestTargets: the result, and the lastIndex of the RegExp
\* objects afterwards.
IsInGivenRequestTargets(opts, li, target) ==
    IF ~opts.failedRequestTargets.defined
    THEN [res |-> FALSE, lastIndex |-> li]
    ELSE SomeTarget(opts.failedRequestTargets.value, li, target, 1)

\* _isSentryRequest
IsSentryRequest(installed, h, url) ==
    IF ~(installed /\ h.client)
    THEN FALSE
    ELSE IF h.dsn THEN Includes(url, h.host) ELSE FALSE

\* _shouldCaptureResponse: a && b && !c, evaluated left to right.
ShouldCaptureResponse(opts, li, installed, h, status, url) ==
    IF ~IsInGivenStatusRanges(opts, status)
    THEN [res |-> FALSE, lastIndex |-> li]
    ELSE LET t == IsInGivenRequestTargets(opts, li, url)
         IN  [res |-> t.res /\ ~IsSentryRequest(installed, h, url),
              lastIndex |-> t.lastIndex]

-----------------------------------------------------------------------------
(* Header and cookie strings.  A header or cookie string is a sequence of
   tokens: names, values and the separators the code splits on. *)

\* String.prototype.split with a separator that is one token.
RECURSIVE Split(_, _)
Split(str, sep) ==
    IF \E i \in 1..Len(str) : str[i] = sep
    THEN LET i == CHOOSE k \in 1..Len(str) :
                      str[k] = sep /\ \A j \in 1..(k - 1) : str[j] # sep
         IN  <<SubSeq(str, 1, i - 1)>> \o Split(SubSeq(str, i + 1, Len(str)), sep)
    ELSE <<str>>

\* parts.reduce((acc, part) => { const [key, value] = part.split(sep);
\* acc[key] = value; return acc; }, {}): a later part overwrites an earlier
\* one with the same key; a part without the separator has value undefined.
ReduceToObject(parts, sep) ==
    LET kv(i) == Split(parts[i], sep)
        keys == {kv(i)[1] : i \in DOMAIN parts}
    IN  [k \in keys |->
            LET last == CHOOSE i \in DOMAIN parts :
                            /\ kv(i)[1] = k
                            /\ \A j \in DOMAIN parts : j > i => kv(j)[1] # k
            IN  IF Len(kv(last)) >= 2 THEN Value(kv(last)[2]) ELSE Undefined]

\* _parseCookieString
ParseCookieString(cookieString) == ReduceToObject(Split(cookieString, "; "), "=")

\* _extractFetchHeaders: headers.forEach((value, key) => result[key] = value)
ExtractFetchHeaders(headers) == [k \in DOMAIN headers |-> headers[k]]

\* _getXHRResponseHeaders, given what xhr.getAllResponseHeaders() answers
GetXHRResponseHeaders(allResponseHeaders) ==
    IF allResponseHeaders = <<>>
    THEN [k \in {} |-> Undefined]
    ELSE ReduceToObject(Split(allResponseHeaders, "\r\n"), ": ")

\* obj[key]
Get(obj, key) == IF key \in DOMAIN obj THEN obj[key] ELSE Undefined

\* A string is truthy unless it is empty; undefined is not.
Truthy(v) == v.defined /\ v.value # <<>>

\* a || b
Or(a, b) == IF Truthy(a) THEN a ELSE b

\* cookieHeader.toLowerCase()
ToLowerCase(name) ==
    IF name = <<"Cookie">> THEN <<"cookie">>
    ELSE IF name = <<"Set-Cookie">> THEN <<"set-cookie">>
    ELSE name

\* parseInt(str, 10) of the strings of digits the model sends; NaN otherwise,
\* written as a negative number.
ParseInt(str) ==
    IF Len(str) >= 1 /\ str[1] = "12" THEN Value(12)
    ELSE IF Len(str) >= 1 /\ str[1] = "0" THEN Value(0)
    ELSE Value(0 - 1)

\* _getResponseSizeFromHeaders
GetResponseSizeFromHeaders(headers) ==
    IF headers.defined
    THEN LET contentLength == Or(Get(headers.value, <<"Content-Length">>),
                                Get(headers.value, <<"content-length">>))
         IN  IF Truthy(contentLength) THEN ParseInt(contentLength.value) ELSE Undefined
    ELSE Undefined

\* _createEvent
CreateEvent(data) ==
    [message |-> data.status,
     request |-> [url |-> data.url,
                  method |-> data.method,
                  headers |-> data.requestHeaders,
                  cookies |-> data.requestCookies],
     response |-> [status_code |-> data.status,
                   headers |-> data.responseHeaders,
                   cookies |-> data.responseCookies,
                   body_size |-> GetResponseSizeFromHeaders(data.responseHeaders)],
     mechanism |-> "http.client"]

-----------------------------------------------------------------------------
(* The fetch interceptor *)

\* new Request(requestInfo, requestInit) throws a TypeError when requestInfo
\* is a Request whose body the fetch has already read.
RequestConstructorThrows(args) == args.input = "bodyRequest"

\* new Request(requestInfo, requestInit)
NewRequest(args) == [url |-> args.url, method |-> args.method, headers |-> args.headers]

\* Lines 89-107, for one of the request and the response: its headers, and
\* its cookies unless reading them throws.
FetchHeadersAndCookies(cookieHeader, obj, cookiesThrow) ==
    LET headers == ExtractFetchHeaders(obj.headers)
        cookieString == Or(Or(Get(headers, cookieHeader),
                              Get(headers, ToLowerCase(cookieHeader))),
                           Undefined)
    IN  [headers |-> Value(headers),
         cookies |-> IF ~cookiesThrow /\ Truthy(cookieString)
                     THEN Value(ParseCookieString(cookieString.value))
                     ELSE Undefined]

\* What a call of a response handler did: the lastIndex of the RegExp
\* objects afterwards, the events given to hub.captureEvent, and whether the
\* handler threw.
Handled(li, events, threw) == [lastIndex |-> li, events |-> events, threw |-> threw]

\* _fetchResponseHandler.  fail says which calls into the environment throw.
FetchResponseHandler(args, response, fail) ==
    LET should == ShouldCaptureResponse(options, lastIndex, getCurrentHub, hub,
                                        response.status, response.url)
    IN  IF ~getCurrentHub
        THEN Handled(lastIndex, <<>>, FALSE)
        ELSE IF ~should.res
        THEN Handled(should.lastIndex, <<>>, FALSE)
        ELSE IF RequestConstructorThrows(args)
        THEN Handled(should.lastIndex, <<>>, TRUE)
        ELSE LET request == NewRequest(args)
                 req == FetchHeadersAndCookies(<<"Cookie">>, request, fail.requestCookies)
                 res == FetchHeadersAndCookies(<<"Set-Cookie">>, response, fail.responseCookies)
                 event == CreateEvent(
                     [url |-> request.url,
                      method |-> request.method,
                      status |-> response.status,
                      requestHeaders |-> IF hub.pii THEN req.headers ELSE Undefined,
                      responseHeaders |-> IF hub.pii THEN res.headers ELSE Undefined,
                      requestCookies |-> IF hub.pii THEN req.cookies ELSE Undefined,
                      responseCookies |-> IF hub.pii THEN res.cookies ELSE Undefined])
             IN  Handled(should.lastIndex, <<event>>, fail.captureEvent)

\* A wrapper that returns the promise of its own chain.
WrappedFetchReturnsChain(args) ==
    [originalCalls |-> 1, originalArgs |-> args, hooked |-> TRUE, returned |-> "chain"]

\* What the wrapper installed by _wrapFetch does with a call: it calls the
\* original once with the arguments it got, attaches its reactions to the
\* promise and returns that promise.
WrappedFetch(args) ==
    [originalCalls |-> 1, originalArgs |-> args, hooked |-> TRUE,
     returned |-> "responsePromise"]

\* The native fetch, not wrapped.
NativeFetch(args) ==
    [originalCalls |-> 1, originalArgs |-> args, hooked |-> FALSE,
     returned |-> "responsePromise"]

\* The .then callback runs when the promise of the original is fulfilled.
ThenCallbackRuns(hooked, phase) == hooked /\ phase = "fulfilled"

\* What the caller gets from the promise it was given: the promise of the
\* original settles as the original did; the promise of the chain
\* .then(...).catch(...) rejects when the handler throws.
CallerObserves(returned, phase, handlerThrew) ==
    IF returned = "responsePromise"
    THEN IF phase = "fulfilled" THEN "response" ELSE "rejection"
    ELSE IF phase = "fulfilled" /\ ~handlerThrew THEN "response" ELSE "rejection"

-----------------------------------------------------------------------------
(* The XMLHttpRequest interceptor *)

\* The closure a wrapped open() creates: const method, const headers = {}.
NewLayer(method) == [method |-> method, headers |-> [k \in {} |-> Undefined]]

\* xhr.onloadend as a function: the handler the page assigned (or null) and,
\* around it, the wrappers of the open() calls since, innermost first, each
\* named by its closure.
Onloadend(base, wraps) == [base |-> base, wraps |-> wraps]

\* The wrapper installed on XMLHttpRequest.prototype.open: a new closure, a
\* wrapper around the object's setRequestHeader and one around whatever its
\* onloadend holds, then the original open with the arguments it got.
WrappedOpen(x, method) ==
    [x EXCEPT !.layers = Append(@, NewLayer(method)),
              !.onloadend = Onloadend(@.base, Append(@.wraps, Len(x.layers) + 1)),
              !.atOpen = x.onloadend.base,
              !.intercepted = TRUE,
              !.native = [fn |-> "open", calls |-> 1, args |-> <<method>>],
              !.called = <<method>>,
              !.state = "opened"]

\* The original open, not wrapped.
NativeOpen(x, method) ==
    [x EXCEPT !.atOpen = x.onloadend.base,
              !.intercepted = FALSE,
              !.native = [fn |-> "open", calls |-> 1, args |-> <<method>>],
              !.called = <<method>>,
              !.state = "opened"]

\* The object's setRequestHeader: every wrapper around it records the header
\* in its closure and passes the call on; the original is reached once.
SetRequestHeader(x, header, value) ==
    [x EXCEPT !.layers = [i \in DOMAIN @ |->
                             [@[i] EXCEPT !.headers =
                                 [k \in DOMAIN @ \cup {header} |->
                                     IF k = header THEN Value(value) ELSE @[k]]]],
              !.native = [fn |-> "setRequestHeader", calls |-> 1,
                          args |-> <<header, value>>],
              !.called = <<header, value>>]

\* xhr.getResponseHeader(name): the name is matched without regard to case;
\* null (here undefined, as falsy) when the response has no such header or
\* the browser hides it.
GetResponseHeader(response, name) ==
    IF ToLowerCase(name) = <<"set-cookie">> THEN response.setCookie ELSE Undefined

\* A handler that attaches the request headers whatever sendDefaultPii says.
XhrResponseHandlerSendsHeaders(li, layer, response, fail) ==
    LET should == ShouldCaptureResponse(options, li, getCurrentHub, hub,
                                        response.status, response.url)
    IN  IF ~(getCurrentHub /\ should.res)
        THEN Handled(should.lastIndex, <<>>, FALSE)
        ELSE Handled(should.lastIndex,
                     <<CreateEvent([url |-> response.url,
                                    method |-> layer.method,
                                    status |-> response.status,
                                    requestHeaders |-> Value(layer.headers),
                                    responseHeaders |-> Undefined,
                                    requestCookies |-> Undefined,
                                    responseCookies |-> Undefined])>>,
                     fail.captureEvent)

\* _xhrResponseHandler with the closure of one wrapper, the RegExp objects
\* as the call finds them.
XhrResponseHandler(li, layer, response, fail) ==
    LET should == ShouldCaptureResponse(options, li, getCurrentHub, hub,
                                        response.status, response.url)
    IN  IF ~getCurrentHub
        THEN Handled(li, <<>>, FALSE)
        ELSE IF ~should.res
        THEN Handled(should.lastIndex, <<>>, FALSE)
        ELSE LET cookieString == Or(Or(GetResponseHeader(response, <<"Set-Cookie">>),
                                       GetResponseHeader(response, <<"set-cookie">>)),
                                    Undefined)
                 responseCookies ==
                     IF hub.pii /\ ~fail.responseCookies /\ Truthy(cookieString)
                     THEN Value(ParseCookieString(cookieString.value))
                     ELSE Undefined
                 responseHeaders ==
                     IF hub.pii /\ ~fail.responseHeaders
                     THEN Value(GetXHRResponseHeaders(response.allResponseHeaders))
                     ELSE Undefined
                 event == CreateEvent(
                     [url |-> response.url,
                      method |-> layer.method,
                      status |-> response.status,
                      requestHeaders |-> IF hub.pii THEN Value(layer.headers) ELSE Undefined,
                      responseHeaders |-> responseHeaders,
                      requestCookies |-> Undefined,
                      responseCookies |-> responseCookies])
             IN  Handled(should.lastIndex, <<event>>, fail.captureEvent)

\* What a call of xhr.onloadend did: the events captured, the calls in their
\* order, whether an interceptor threw and whether an exception reached the
\* caller.
Loadended(li, events, log, threw, escaped) ==
    [lastIndex |-> li, events |-> events, log |-> log, threw |-> threw,
     escaped |-> escaped]

\* The page's handler, called by the innermost wrapper or by the browser.
CallBase(base) == IF base = "null" THEN <<>> ELSE <<base>>

\* Wrappers without the try/catch: what the interceptor throws reaches the
\* caller, and the function it wrapped is not called.
RECURSIVE CallOnloadendNoCatch(_, _, _, _, _)
CallOnloadendNoCatch(x, k, li, response, fail) ==
    IF k = 0
    THEN Loadended(li, <<>>, CallBase(x.onloadend.base), FALSE, FALSE)
    ELSE LET h == XhrResponseHandler(li, x.layers[x.onloadend.wraps[k]], response, fail)
             inner == CallOnloadendNoCatch(x, k - 1, h.lastIndex, response, fail)
         IN  IF h.threw
             THEN Loadended(h.lastIndex, h.events, <<"interceptor">>, TRUE, TRUE)
             ELSE Loadended(inner.lastIndex,
                            h.events \o inner.events,
                            <<"interceptor">> \o inner.log,
                            inner.threw,
                            inner.escaped)

\* The wrapper of closure wraps[k] and everything inside it: the interceptor
\* in a try/catch, then the function it wrapped.
RECURSIVE CallOnloadend(_, _, _, _, _)
CallOnloadend(x, k, li, response, fail) ==
    IF k = 0
    THEN Loadended(li, <<>>, CallBase(x.onloadend.base), FALSE, FALSE)
    ELSE LET h == XhrResponseHandler(li, x.layers[x.onloadend.wraps[k]], response, fail)
             inner == CallOnloadend(x, k - 1, h.lastIndex, response, fail)
         IN  Loadended(inner.lastIndex,
                       h.events \o inner.events,
                       <<"interceptor">> \o inner.log,
                       h.threw \/ inner.threw,
                       inner.escaped)

-----------------------------------------------------------------------------
(* The inputs *)

SeqsUpTo(S, n) == UNION {[1..k -> S] : k \in 0..n}

\* The statuses a response may carry.
Statuses == {200, 404, 405, 499, 500, 501, 599, 600}

\* The numbers an entry of failedRequestStatusCodes is built from: single
\* codes, and tuples in either order of their ends.
EntryStatuses == {404, 500, 599}

StatusEntries ==
    {StatusCode(n) : n \in EntryStatuses}
        \cup {StatusRange(b, e) : b \in EntryStatuses, e \in EntryStatuses}

Patterns == {<<"a">>, <<"b">>, <<"a", "b">>}

RegExps ==
    {AnyRegExp(g) : g \in BOOLEAN}
        \cup {LitRegExp(s, g) : s \in Patterns, g \in BOOLEAN}

TargetEntries == {StringTarget(s) : s \in Patterns \cup {<<>>}} \cup RegExps

OneOption(k, v) == [x \in {k} |-> v]

\* new HttpClient(), new HttpClient({}), and the options objects that hold
\* one of the two keys, its value an array or undefined.
StatusCodeArgs ==
    {OneOption("failedRequestStatusCodes", v) :
        v \in {Undefined} \cup {Value(l) : l \in SeqsUpTo(StatusEntries, MaxEntries)}}

TargetArgs ==
    {OneOption("failedRequestTargets", v) :
        v \in {Undefined} \cup {Value(l) : l \in SeqsUpTo(TargetEntries, MaxEntries)}}

\* Options objects that hold both keys.
BothArgs ==
    {[failedRequestStatusCodes |-> c, failedRequestTargets |-> t] :
        c \in {Undefined, Value(<<StatusCode(404)>>)},
        t \in {Undefined, Value(<<StringTarget(<<"a">>)>>)}}

NoOptions == [x \in {} |-> Undefined]

ConstructorArgs == {NoOptions} \cup StatusCodeArgs \cup TargetArgs \cup BothArgs

NoClientHub == [client |-> FALSE, dsn |-> FALSE, host |-> <<>>, pii |-> FALSE]

NoCheck == [op |-> "none", status |-> 0, url |-> <<>>, res |-> FALSE]
NoDom == [called |-> FALSE]

\* The hubs: without a client, with a client without a DSN, and with a client
\* whose DSN has host "a"; sendDefaultPii on or off.
Hubs ==
    {[client |-> c[1], dsn |-> c[2], host |-> c[3], pii |-> p] :
        c \in {<<FALSE, FALSE, <<>>>>, <<TRUE, FALSE, <<>>>>, <<TRUE, TRUE, <<"a">>>>},
        p \in BOOLEAN}

\* supportsNativeFetch(), and 'XMLHttpRequest' in GLOBAL_OBJ
Envs == [fetch : BOOLEAN, xhr : BOOLEAN]

\* The options of the integration set up in a page.
SetupArgs ==
    {NoOptions,
     [failedRequestStatusCodes |-> Value(<<StatusCode(404), StatusRange(500, 599)>>),
      failedRequestTargets |-> Value(<<StringTarget(<<"a">>)>>)],
     OneOption("failedRequestTargets", Value(<<LitRegExp(<<"b">>, TRUE)>>))}

ResponseStatuses == {200, 404, 500}
ResponseUrls == {<<>>, <<"a">>, <<"b">>}

EmptyObject == [k \in {} |-> Undefined]

\* A response: its status and url, its headers as the Headers object of a
\* fetch Response, as the string xhr.getAllResponseHeaders() answers and as
\* xhr.getResponseHeader('Set-Cookie') answers.
Response(status, url, kind) ==
    [status |-> status,
     url |-> url,
     headers |->
         IF kind = "plain" THEN EmptyObject
         ELSE IF kind = "sized" THEN [k \in {<<"content-length">>} |-> Value(<<"12">>)]
         ELSE [k \in {<<"content-length">>, <<"set-cookie">>} |->
                  IF k = <<"content-length">> THEN Value(<<"12">>)
                  ELSE Value(<<"k", "=", "v", "; ", "j">>)],
     allResponseHeaders |->
         IF kind = "plain" THEN <<>>
         ELSE <<"content-length", ": ", "12", "\r\n">>,
     setCookie |->
         IF kind = "cookie" THEN Value(<<"k", "=", "v", "; ", "j">>) ELSE Undefined]

Responses ==
    {Response(st, u, k) : st \in ResponseStatuses, u \in ResponseUrls,
                          k \in {"plain", "sized", "cookie"}}

NoResponse == Response(0, <<>>, "plain")

\* The arguments of a fetch call: a url, a Request, or a Request with a body;
\* with or without a second argument.
FetchArgs ==
    {[input |-> i, init |-> n, url |-> <<"a">>,
      method |-> IF i = "bodyRequest" THEN "POST" ELSE "GET",
      headers |-> h] :
        i \in {"url", "request", "bodyRequest"},
        n \in BOOLEAN,
        h \in {EmptyObject, [k \in {<<"cookie">>} |-> Value(<<"s", "=", "1">>)]}}

NoArgs == [input |-> "url", init |-> FALSE, url |-> <<>>, method |-> "GET",
           headers |-> EmptyObject]

\* Which calls into the environment throw during a response handler.
Fails ==
    [requestCookies : BOOLEAN, responseCookies : BOOLEAN,
     responseHeaders : BOOLEAN, captureEvent : BOOLEAN]

Methods == {"GET", "POST"}
PageHandlers == {"h1", "h2"}

IdleFetch ==
    [phase |-> "idle", args |-> NoArgs, originalCalls |-> 0, originalArgs |-> NoArgs,
     hooked |-> FALSE, returned |-> "none", response |-> NoResponse]

NewXhr ==
    [state |-> "unsent", layers |-> <<>>, onloadend |-> Onloadend("null", <<>>),
     atOpen |-> "null", intercepted |-> FALSE,
     native |-> [fn |-> "none", calls |-> 0, args |-> <<>>], called |-> <<>>]

NoDone ==
    [by |-> "none", status |-> 0, url |-> <<>>, phase |-> "none",
     intercepted |-> FALSE, installed |-> FALSE, should |-> FALSE,
     handlerRan |-> FALSE, events |-> <<>>, threw |-> FALSE, escaped |-> FALSE,
     unhandled |-> 0, callerSaw |-> "none", log |-> <<>>, atOpen |-> "null",
     response |-> NoResponse, fail |-> [requestCookies |-> FALSE,
     responseCookies |-> FALSE, responseHeaders |-> FALSE, captureEvent |-> FALSE],
     args |-> NoArgs, layer |-> NewLayer("GET")]

-----------------------------------------------------------------------------
(* The matching functions applied to every status and url, for every options
   object: specification SpecMatch. *)

InitMatch ==
    /\ given \in ConstructorArgs
    /\ options = Constructor(given)
    /\ lastIndex = FreshLastIndex(options)
    /\ hub = NoClientHub
    /\ env = [fetch |-> FALSE, xhr |-> FALSE]
    /\ getCurrentHub = FALSE
    /\ wrapped = [fetch |-> FALSE, xhr |-> FALSE]
    /\ lastCheck = NoCheck
    /\ fetchCall = IdleFetch
    /\ xhr = NewXhr
    /\ done = NoDone
    /\ requests = 0
    /\ dom = NoDom

\* this._isInGivenStatusRanges(status)
CheckStatus(status) ==
    /\ lastCheck' = [op |-> "status", status |-> status, url |-> <<>>,
                     res |-> IsInGivenStatusRanges(options, status)]
    /\ UNCHANGED <<given, options, lastIndex, hub, env, getCurrentHub, wrapped,
                   fetchCall, xhr, done, requests, dom>>

\* this._isInGivenRequestTargets(url)
CheckTarget(url) ==
    LET t == IsInGivenRequestTargets(options, lastIndex, url)
    IN  /\ lastCheck' = [op |-> "target", status |-> 0, url |-> url, res |-> t.res]
        /\ lastIndex' = t.lastIndex
        /\ UNCHANGED <<given, options, hub, env, getCurrentHub, wrapped,
                       fetchCall, xhr, done, requests, dom>>

NextMatch ==
    \/ \E status \in Statuses : CheckStatus(status)
    \/ \E url \in Urls : CheckTarget(url)

SpecMatch == InitMatch /\ [][NextMatch]_vars

-----------------------------------------------------------------------------
(* The integration in a page.  The page has one request in flight at a
   time: the handlers run one after the other in any case, and share nothing
   but the RegExp objects of the options. *)

\* The state after new HttpClient(arg), in a page with the given hub and
\* globals.
InitWith(args, hubs, envs) ==
    /\ given \in args
    /\ options = Constructor(given)
    /\ lastIndex = FreshLastIndex(options)
    /\ hub \in hubs
    /\ env \in envs
    /\ getCurrentHub = FALSE
    /\ wrapped = [fetch |-> FALSE, xhr |-> FALSE]
    /\ lastCheck = NoCheck
    /\ fetchCall = IdleFetch
    /\ xhr = NewXhr
    /\ done = NoDone
    /\ requests = 0
    /\ dom = NoDom

NoFail == [requestCookies |-> FALSE, responseCookies |-> FALSE,
           responseHeaders |-> FALSE, captureEvent |-> FALSE]

FetchFails == {f \in Fails : ~f.responseHeaders}
XhrFails == {f \in Fails : ~f.requestCookies}

\* setupOnce: the hub getter is kept, fetch is wrapped when the browser has a
\* native fetch, XMLHttpRequest.prototype.open when there is an XMLHttpRequest.
SetupOnce ==
    /\ ~getCurrentHub
    /\ getCurrentHub' = TRUE
    /\ wrapped' = [fetch |-> env.fetch, xhr |-> env.xhr]
    /\ UNCHANGED <<given, options, lastIndex, hub, env, lastCheck, fetchCall,
                   xhr, done, requests, dom>>

Quiet == fetchCall.phase = "idle" /\ xhr.state # "sent"

\* The page calls fetch(...args).
FetchCall(args) ==
    /\ Quiet
    /\ requests < MaxRequests
    /\ LET call == IF wrapped.fetch THEN WrappedFetch(args) ELSE NativeFetch(args)
       IN  fetchCall' = [phase |-> "pending", args |-> args,
                         originalCalls |-> call.originalCalls,
                         originalArgs |-> call.originalArgs,
                         hooked |-> call.hooked,
                         returned |-> call.returned,
                         response |-> NoResponse]
    /\ done' = NoDone
    /\ UNCHANGED <<given, options, lastIndex, hub, env, getCurrentHub, wrapped,
                   lastCheck, xhr, requests, dom>>

\* The promise of the original fetch is fulfilled with a response.
FetchFulfil(response) ==
    /\ fetchCall.phase = "pending"
    /\ fetchCall' = [fetchCall EXCEPT !.phase = "fulfilled", !.response = response]
    /\ UNCHANGED <<given, options, lastIndex, hub, env, getCurrentHub, wrapped,
                   lastCheck, xhr, done, requests, dom>>

\* The promise of the original fetch is rejected.
FetchReject ==
    /\ fetchCall.phase = "pending"
    /\ fetchCall' = [fetchCall EXCEPT !.phase = "rejected"]
    /\ UNCHANGED <<given, options, lastIndex, hub, env, getCurrentHub, wrapped,
                   lastCheck, xhr, done, requests, dom>>

\* The reactions to the settled promise run: the .then callback of the
\* wrapper with the response handler, or its .catch callback, which throws
\* the error again into a promise nobody handles; and the caller's own.
FetchReactions(fail) ==
    /\ fetchCall.phase \in {"fulfilled", "rejected"}
    /\ LET ran == ThenCallbackRuns(fetchCall.hooked, fetchCall.phase)
           h == IF ran
                THEN FetchResponseHandler(fetchCall.args, fetchCall.response, fail)
                ELSE Handled(lastIndex, <<>>, FALSE)
           should == ShouldCaptureResponse(options, lastIndex, getCurrentHub, hub,
                         fetchCall.response.status, fetchCall.response.url).res
       IN  /\ lastIndex' = h.lastIndex
           /\ done' = [NoDone EXCEPT
                  !.by = "fetch",
                  !.status = fetchCall.response.status,
                  !.url = fetchCall.response.url,
                  !.phase = fetchCall.phase,
                  !.intercepted = fetchCall.hooked,
                  !.installed = fetchCall.hooked,
                  !.should = should,
                  !.handlerRan = ran,
                  !.events = h.events,
                  !.threw = h.threw,
                  !.unhandled = IF fetchCall.hooked /\ (h.threw \/ fetchCall.phase = "rejected")
                                THEN 1 ELSE 0,
                  !.callerSaw = CallerObserves(fetchCall.returned, fetchCall.phase, h.threw),
                  !.response = fetchCall.response,
                  !.fail = IF ran /\ should /\ ~RequestConstructorThrows(fetchCall.args)
                           THEN fail ELSE NoFail,
                  !.args = fetchCall.args]
    /\ fetchCall' = [fetchCall EXCEPT !.phase = "idle"]
    /\ requests' = requests + 1
    /\ UNCHANGED <<given, options, hub, env, getCurrentHub, wrapped, lastCheck,
                   xhr, dom>>

\* new XMLHttpRequest()
XhrNew ==
    /\ env.xhr
    /\ xhr.state = "done"
    /\ xhr' = NewXhr
    /\ done' = NoDone
    /\ UNCHANGED <<given, options, lastIndex, hub, env, getCurrentHub, wrapped,
                   lastCheck, fetchCall, requests, dom>>

\* xhr.open(method, url)
XhrOpen(method) ==
    /\ env.xhr
    /\ Quiet
    /\ requests < MaxRequests
    /\ Len(xhr.layers) < MaxOpens
    /\ xhr' = IF wrapped.xhr THEN WrappedOpen(xhr, method) ELSE NativeOpen(xhr, method)
    /\ done' = NoDone
    /\ UNCHANGED <<given, options, lastIndex, hub, env, getCurrentHub, wrapped,
                   lastCheck, fetchCall, requests, dom>>

\* xhr.setRequestHeader(header, value)
XhrSetRequestHeader(header, value) ==
    /\ xhr.state = "opened"
    /\ xhr' = SetRequestHeader(xhr, header, value)
    /\ UNCHANGED <<given, options, lastIndex, hub, env, getCurrentHub, wrapped,
                   lastCheck, fetchCall, done, requests, dom>>

\* xhr.onloadend = handler
XhrAssignOnloadend(handler) ==
    /\ env.xhr
    /\ xhr.state \in {"unsent", "opened"}
    /\ xhr' = [xhr EXCEPT !.onloadend = Onloadend(handler, <<>>)]
    /\ UNCHANGED <<given, options, lastIndex, hub, env, getCurrentHub, wrapped,
                   lastCheck, fetchCall, done, requests, dom>>

\* xhr.send()
XhrSend ==
    /\ xhr.state = "opened"
    /\ xhr' = [xhr EXCEPT !.state = "sent"]
    /\ UNCHANGED <<given, options, lastIndex, hub, env, getCurrentHub, wrapped,
                   lastCheck, fetchCall, done, requests, dom>>

\* The request ends and the browser calls xhr.onloadend.
XhrLoadend(response, fail) ==
    /\ xhr.state = "sent"
    /\ LET r == CallOnloadend(xhr, Len(xhr.onloadend.wraps), lastIndex, response, fail)
           should == ShouldCaptureResponse(options, lastIndex, getCurrentHub, hub,
                                           response.status, response.url).res
           last == Len(xhr.layers)
       IN  /\ lastIndex' = r.lastIndex
           /\ done' = [NoDone EXCEPT
                  !.by = "xhr",
                  !.status = response.status,
                  !.url = response.url,
                  !.phase = "loadend",
                  !.intercepted = xhr.intercepted,
                  !.installed = \E k \in DOMAIN xhr.onloadend.wraps :
                                    xhr.onloadend.wraps[k] = last,
                  !.should = should,
                  !.handlerRan = xhr.onloadend.wraps # <<>>,
                  !.events = r.events,
                  !.threw = r.threw,
                  !.escaped = r.escaped,
                  !.log = r.log,
                  !.atOpen = xhr.atOpen,
                  !.response = response,
                  !.fail = IF xhr.onloadend.wraps # <<>> /\ should THEN fail ELSE NoFail,
                  !.layer = IF last > 0 THEN xhr.layers[last] ELSE NewLayer("GET")]
    /\ xhr' = [xhr EXCEPT !.state = "done"]
    /\ requests' = requests + 1
    /\ UNCHANGED <<given, options, hub, env, getCurrentHub, wrapped, lastCheck,
                   fetchCall, dom>>

-----------------------------------------------------------------------------
(* Specification SpecFetch: pages that use fetch, for every options object
   of SetupArgs and every hub. *)

PlainResponses ==
    {Response(st, u, "plain") : st \in ResponseStatuses, u \in ResponseUrls}

PlainFetchArgs == {a \in FetchArgs : a.headers = EmptyObject}

CaptureFails == {f \in Fails : f = [NoFail EXCEPT !.captureEvent = f.captureEvent]}

InitFetch ==
    InitWith(SetupArgs, Hubs, {e \in Envs : ~e.xhr})

NextFetch ==
    \/ SetupOnce
    \/ \E args \in PlainFetchArgs : FetchCall(args)
    \/ \E response \in PlainResponses : FetchFulfil(response)
    \/ FetchReject
    \/ \E fail \in CaptureFails : FetchReactions(fail)

SpecFetch == InitFetch /\ [][NextFetch]_vars

-----------------------------------------------------------------------------
(* Specification SpecXhr: pages that use XMLHttpRequest. *)

XhrResponses ==
    {Response(st, u, "plain") : st \in {200, 500}, u \in {<<"a">>, <<"b">>}}

InitXhr ==
    InitWith(SetupArgs, {h \in Hubs : ~h.pii}, {e \in Envs : ~e.fetch})

NextXhr ==
    \/ SetupOnce
    \/ XhrNew
    \/ XhrOpen("GET")
    \/ XhrSetRequestHeader(<<"x-id">>, <<"1">>)
    \/ \E handler \in PageHandlers : XhrAssignOnloadend(handler)
    \/ XhrSend
    \/ \E response \in XhrResponses, fail \in CaptureFails : XhrLoadend(response, fail)

SpecXhr == InitXhr /\ [][NextXhr]_vars

-----------------------------------------------------------------------------
(* Specification SpecPii: the events of both interceptors, with and without
   sendDefaultPii, for responses with and without headers and cookies, each
   read of which may throw. *)

PiiResponses ==
    {Response(st, <<"b">>, k) : st \in {200, 500}, k \in {"plain", "sized", "cookie"}}

PiiFetchArgs == {a \in FetchArgs : a.input # "request" /\ ~a.init}

\* At most one of the calls into the environment throws.
OneFail ==
    {f \in Fails : Cardinality({k \in DOMAIN f : f[k]}) <= 1}

InitPii ==
    InitWith({NoOptions}, {h \in Hubs : ~h.client}, {e \in Envs : e.fetch /\ e.xhr})

NextPii ==
    \/ SetupOnce
    \/ \E args \in PiiFetchArgs : FetchCall(args)
    \/ \E response \in PiiResponses : FetchFulfil(response)
    \/ \E fail \in FetchFails \cap OneFail : FetchReactions(fail)
    \/ XhrOpen("POST")
    \/ XhrSetRequestHeader(<<"x-id">>, <<"1">>)
    \/ XhrSend
    \/ \E response \in PiiResponses, fail \in XhrFails \cap OneFail :
           XhrLoadend(response, fail)

SpecPii == InitPii /\ [][NextPii]_vars

-----------------------------------------------------------------------------
(* Properties of the matching functions *)

EntriesOf(v) == IF v.defined THEN v.value ELSE <<>>

\* C2: a status is considered failed if and only if some entry of
\* failedRequestStatusCodes matches it: a number matches exactly that status,
\* a tuple [begin, end] every status with begin <= status <= end; an empty
\* list matches no status, and neither does a tuple with begin > end.
C2_StatusFailedIffEntryMatches ==
    lastCheck.op = "status" =>
        LET codes == EntriesOf(options.failedRequestStatusCodes)
            st == lastCheck.status
        IN  /\ lastCheck.res <=>
                  \E i \in 1..Len(codes) :
                      \/ codes[i].kind = "code" /\ codes[i].v = st
                      \/ /\ codes[i].kind = "range"
                         /\ codes[i].begin <= st
                         /\ st <= codes[i].end
            /\ Len(codes) = 0 => ~lastCheck.res
            /\ (\A i \in 1..Len(codes) :
                    codes[i].kind = "range" /\ codes[i].begin > codes[i].end)
                  => ~lastCheck.res

\* A status equal to the end of a tuple, and one equal to its begin, matched.
C2_Witness ==
    /\ lastCheck.op = "status"
    /\ lastCheck.res
    /\ lastCheck.status = 599
    /\ options.failedRequestStatusCodes = Value(<<StatusRange(404, 599)>>)

\* The url matches the entry, whatever calls came before.
EntryMatchesUrl(entry, url) ==
    IF entry.kind = "string"
    THEN Includes(url, entry.str)
    ELSE \E p \in 0..Len(url) : MatchesAt(entry, url, p)

\* C3: a url is tracked if and only if some entry of failedRequestTargets
\* matches it: a string entry when the url contains it, a regular expression
\* when it matches the url; an empty list tracks no url.
C3_TrackedIffEntryMatches ==
    lastCheck.op = "target" =>
        LET targets == EntriesOf(options.failedRequestTargets)
        IN  /\ lastCheck.res <=>
                  \E i \in 1..Len(targets) : EntryMatchesUrl(targets[i], lastCheck.url)
            /\ Len(targets) = 0 => ~lastCheck.res

Supplies(arg, k) == k \in DOMAIN arg /\ arg[k].defined

\* C4: when the options give no value for failedRequestStatusCodes (the key
\* absent or undefined) exactly the statuses 500 to 599 are failed; when they
\* give none for failedRequestTargets every url is tracked; a value given
\* replaces the default.
C4_DefaultsWhenNotSupplied ==
    /\ (lastCheck.op = "status" /\ ~Supplies(given, "failedRequestStatusCodes"))
          => (lastCheck.res <=> (500 <= lastCheck.status /\ lastCheck.status <= 599))
    /\ (lastCheck.op = "target" /\ ~Supplies(given, "failedRequestTargets"))
          => lastCheck.res
    /\ \A k \in OptionKeys : Supplies(given, k) => options[k] = given[k]

-----------------------------------------------------------------------------
(* Properties of the interceptors *)

\* The condition of the claim: a failed status, a tracked url, and not a
\* request to Sentry.
CaptureCondition(status, url) ==
    LET codes == EntriesOf(options.failedRequestStatusCodes)
        targets == EntriesOf(options.failedRequestTargets)
    IN  /\ getCurrentHub
        /\ \E i \in 1..Len(codes) :
              \/ codes[i].kind = "code" /\ codes[i].v = status
              \/ /\ codes[i].kind = "range"
                 /\ codes[i].begin <= status
                 /\ status <= codes[i].end
        /\ \E i \in 1..Len(targets) : EntryMatchesUrl(targets[i], url)
        /\ ~(hub.client /\ hub.dsn /\ Includes(url, hub.host))

\* C1: for every response a handler sees, hub.captureEvent is called if and
\* only if the hub getter is installed, the status is in
\* failedRequestStatusCodes, the url matches one of failedRequestTargets and
\* the url is not a Sentry request (the hub has a client with a DSN whose
\* host the url contains).
C1_CapturedIffConditionHolds ==
    (done.by \in {"fetch", "xhr"} /\ done.handlerRan)
        => (done.events # <<>> <=> CaptureCondition(done.status, done.url))

\* C5: after setupOnce, every loadend of an XMLHttpRequest opened through the
\* wrapper whose status and responseURL satisfy the capture condition
\* captures an event, whatever the page did with the object in between.
C5_FailedXhrIsCaptured ==
    (done.by = "xhr" /\ done.intercepted /\ done.should) => done.events # <<>>

\* The number of calls of `name` in the log, and whether every interceptor
\* ran before them.
Calls(log, name) == Cardinality({i \in DOMAIN log : log[i] = name})

InterceptorsFirst(log, name) ==
    \A i \in DOMAIN log, j \in DOMAIN log :
        (log[i] = "interceptor" /\ log[j] = name) => i < j

NativeCalledOnce ==
    xhr.native.fn \in {"open", "setRequestHeader"} =>
        xhr.native.calls = 1 /\ xhr.native.args = xhr.called

C8_WrappedFetchIsTransparent ==
    /\ fetchCall.hooked =>
          /\ fetchCall.originalCalls = 1
          /\ fetchCall.originalArgs = fetchCall.args
          /\ fetchCall.returned = "responsePromise"
    /\ (done.by = "fetch" /\ done.intercepted) =>
          /\ done.callerSaw = IF done.phase = "fulfilled" THEN "response" ELSE "rejection"
          /\ done.handlerRan => done.phase = "fulfilled"
          /\ done.phase = "rejected" => done.events = <<>>

\* The handler threw and the caller got the response all the same; and
\* before it, a rejected fetch that captured nothing.
C8_Witness ==
    /\ done.by = "fetch"
    /\ done.intercepted
    /\ done.threw
    /\ done.should
    /\ done.callerSaw = "response"
    /\ requests = 2

-----------------------------------------------------------------------------
(* Properties of the events *)

\* The event carries no headers, no cookies and no body size.
CarriesNoPii(event) ==
    /\ ~event.request.headers.defined
    /\ ~event.request.cookies.defined
    /\ ~event.response.headers.defined
    /\ ~event.response.cookies.defined
    /\ ~event.response.body_size.defined

\* The event of the latest completion as its url, method and status alone
\* make it.
BareEvent ==
    CreateEvent([url |-> IF done.by = "fetch" THEN done.args.url ELSE done.url,
                 method |-> IF done.by = "fetch" THEN done.args.method
                            ELSE done.layer.method,
                 status |-> done.status,
                 requestHeaders |-> Undefined, responseHeaders |-> Undefined,
                 requestCookies |-> Undefined, responseCookies |-> Undefined])

\* The event of the latest completion had nothing thrown.
FullEvent ==
    IF done.by = "fetch"
    THEN FetchResponseHandler(done.args, done.response, NoFail).events[1]
    ELSE XhrResponseHandler(lastIndex, done.layer, done.response, NoFail).events[1]

ReadFailed ==
    done.fail.requestCookies \/ done.fail.responseCookies \/ done.fail.responseHeaders

WithoutPii ==
    (done.by \in {"fetch", "xhr"} /\ ~hub.pii) =>
        \A i \in DOMAIN done.events :
            CarriesNoPii(done.events[i]) /\ done.events[i] = BareEvent

\* C7, as claimed: without sendDefaultPii the event carries no request or
\* response headers or cookies and no body_size, so that it depends on the
\* url, the method and the status alone; with it, a failure to parse cookies
\* or to read the response headers of an XMLHttpRequest leaves that field
\* alone undefined, and the event is captured.
C7_FailureLeavesOnlyThatFieldUndefined ==
    /\ WithoutPii
    /\ (hub.pii /\ ReadFailed) =>
          /\ done.events # <<>>
          /\ done.events[1] =
                IF done.fail.requestCookies
                THEN [FullEvent EXCEPT !.request.cookies = Undefined]
                ELSE IF done.fail.responseCookies
                THEN [FullEvent EXCEPT !.response.cookies = Undefined]
                ELSE [FullEvent EXCEPT !.response.headers = Undefined]

\* C7, amended: a failure to read the response headers of an XMLHttpRequest
\* leaves the response headers and the body_size taken from them undefined.
C7_FailureLeavesThatFieldAndBodySizeUndefined ==
    /\ WithoutPii
    /\ (hub.pii /\ ReadFailed) =>
          /\ done.events # <<>>
          /\ done.events[1] =
                IF done.fail.requestCookies
                THEN [FullEvent EXCEPT !.request.cookies = Undefined]
                ELSE IF done.fail.responseCookies
                THEN [FullEvent EXCEPT !.response.cookies = Undefined]
                ELSE [FullEvent EXCEPT !.response.headers = Undefined,
                                       !.response.body_size = Undefined]

\* Reading the response headers failed for a response with a Content-Length:
\* the event has the request headers and no body_size.
C7_Witness ==
    /\ hub.pii
    /\ done.by = "xhr"
    /\ done.fail.responseHeaders
    /\ done.response.allResponseHeaders # <<>>
    /\ done.events # <<>>
    /\ done.events[1].request.headers.defined
    /\ DOMAIN done.events[1].request.headers.value # {}
    /\ ~done.events[1].response.body_size.defined

-----------------------------------------------------------------------------
(* handleDom (coreHandlers/handleDom.ts) *)

\* What handleDom is called with: undefined, null, or an object.  name is a
\* string, absent, or cannot be read or converted to a string; event is
\* absent, an event whose target getter throws, the number 0, an event
\* without a target, or an event whose target is a node.
NameKinds == {"click", "keydown", "absent", "throws"}
EventKinds == {"absent", "targetThrows", "zero", "noTarget", "n1", "n2"}

HandlerDatas ==
    {[kind |-> k, name |-> "absent", event |-> "absent"] : k \in {"undefined", "null"}}
    \cup {[kind |-> "object", name |-> n, event |-> e] :
             n \in NameKinds, e \in EventKinds}

\* htmlTreeAsString of @sentry/utils: it throws or it returns a string.
TreeStrings == {<<>>, <<"<unknown>">>, <<"div">>, <<"body", " > ", "a">>}
TreeOutcomes ==
    {[threw |-> TRUE, str |-> <<>>]} \cup {[threw |-> FALSE, str |-> t] : t \in TreeStrings}

\* record.mirror.getId: the id of a node, -1 for a node the mirror has not.
NodeIds == {0 - 1, 1, 2}

\* new Date().getTime()
Times == {0, 1500}

\* handlerData.event.target || handlerData.event
ReadTargetNode(handlerData) ==
    IF handlerData.kind # "object" \/ handlerData.event \in {"absent", "targetThrows"}
    THEN [threw |-> TRUE, node |-> Undefined]
    ELSE IF handlerData.event \in {"n1", "n2"}
    THEN [threw |-> FALSE, node |-> Value(handlerData.event)]
    ELSE IF handlerData.event = "noTarget"
    THEN [threw |-> FALSE, node |-> Value("event")]
    ELSE [threw |-> FALSE, node |-> Value("zero")]

TruthyNode(targetNode) == targetNode.defined /\ targetNode.value # "zero"

\* `ui.${handlerData.name}`
Category(handlerData) ==
    <<"ui.">> \o (IF handlerData.name = "absent" THEN <<"undefined">>
                  ELSE <<handlerData.name>>)

NoBreadcrumb ==
    [timestamp |-> <<0, 1000>>, type |-> "none", category |-> <<>>, message |-> <<>>,
     data |-> [nodeId |-> Undefined]]

Returned(kind, breadcrumb) == [kind |-> kind, breadcrumb |-> breadcrumb]

\* The rest of handleDom once target and targetNode are set.
MakeBreadcrumb(handlerData, target, targetNode, id, now) ==
    IF Len(target) = 0
    THEN Returned("null", NoBreadcrumb)
    ELSE IF handlerData.kind # "object" \/ handlerData.name = "throws"
    THEN Returned("throws", NoBreadcrumb)
    ELSE Returned("breadcrumb",
                  [timestamp |-> <<now, 1000>>,
                   type |-> "default",
                   category |-> Category(handlerData),
                   message |-> target,
                   data |-> [nodeId |-> IF TruthyNode(targetNode)
                                        THEN Value(id) ELSE Undefined]])

\* handleDom without the try/catch around the target.
HandleDomNoCatch(handlerData, tree, id, now) ==
    LET read == ReadTargetNode(handlerData)
    IN  IF read.threw \/ tree.threw
        THEN Returned("throws", NoBreadcrumb)
        ELSE MakeBreadcrumb(handlerData, tree.str, read.node, id, now)

\* handleDom(handlerData); tree is what htmlTreeAsString does when it is
\* called, id what getId returns, now the clock.
HandleDom(handlerData, tree, id, now) ==
    LET read == ReadTargetNode(handlerData)
        target == IF read.threw \/ tree.threw THEN <<"<unknown>">> ELSE tree.str
    IN  MakeBreadcrumb(handlerData, target, read.node, id, now)

\* A caller calls handleDom.
CallHandleDom(handlerData, tree, id, now) ==
    /\ dom' = [called |-> TRUE,
               handlerData |-> handlerData,
               caught |-> ReadTargetNode(handlerData).threw \/ tree.threw,
               tree |-> tree,
               targetNode |-> ReadTargetNode(handlerData).node,
               result |-> HandleDom(handlerData, tree, id, now)]
    /\ UNCHANGED <<given, options, lastIndex, hub, env, getCurrentHub, wrapped,
                   lastCheck, fetchCall, xhr, done, requests>>

InitDom ==
    InitWith({NoOptions}, {h \in Hubs : ~h.client /\ ~h.pii},
             {e \in Envs : e.fetch /\ e.xhr})

NextDom ==
    \E handlerData \in HandlerDatas, tree \in TreeOutcomes, id \in NodeIds, now \in Times :
        CallHandleDom(handlerData, tree, id, now)

SpecDom == InitDom /\ [][NextDom]_vars

\* The stringified target of the latest call.
StringifiedTarget == IF dom.caught THEN <<"<unknown>">> ELSE dom.tree.str

\* What the claim says of a call that returned.
ReturnsAsSpecified ==
    /\ dom.caught => /\ dom.result.kind = "breadcrumb"
                     /\ dom.result.breadcrumb.message = <<"<unknown>">>
    /\ dom.result.kind = "null" <=> StringifiedTarget = <<>>
    /\ dom.result.kind = "breadcrumb" =>
          /\ dom.result.breadcrumb.type = "default"
          /\ dom.result.breadcrumb.category = Category(dom.handlerData)
          /\ dom.result.breadcrumb.message = StringifiedTarget
          /\ ~dom.result.breadcrumb.data.nodeId.defined <=> ~TruthyNode(dom.targetNode)

\* C6, as claimed: handleDom never raises, whatever handlerData is; when
\* reading or stringifying the target throws it returns a breadcrumb with
\* message '<unknown>'; it returns null exactly when the stringified target is
\* empty; a breadcrumb has type 'default', category 'ui.' + name, the
\* stringified target as message and nodeId undefined exactly when there is
\* no target node.
C6_HandleDomNeverRaises ==
    dom.called => (dom.result.kind # "throws" /\ ReturnsAsSpecified)

NameReadable ==
    dom.handlerData.kind = "object" /\ dom.handlerData.name # "throws"

\* C6, amended: handleDom raises exactly when the stringified target is not
\* empty and handlerData is undefined or null or its name cannot be read as a
\* string; for an object with a readable name it never raises and returns as
\* the claim says.
C6_HandleDomRaisesOnlyReadingName ==
    dom.called =>
        /\ dom.result.kind = "throws" <=> (StringifiedTarget # <<>> /\ ~NameReadable)
        /\ NameReadable => ReturnsAsSpecified

\* Reading the target of an object with a name threw, and handleDom returned
\* the '<unknown>' breadcrumb without a nodeId.
C6_Witness ==
    /\ dom.called
    /\ dom.handlerData.kind = "object"
    /\ dom.handlerData.event = "targetThrows"
    /\ dom.handlerData.name = "click"
    /\ dom.result.kind = "breadcrumb"
    /\ dom.result.breadcrumb.message = <<"<unknown>">>
    /\ dom.result.breadcrumb.category = <<"ui.", "click">>
    /\ ~dom.result.breadcrumb.data.nodeId.defined

=============================================================================
